---- MODULE Spec2Model ----
(***************************************************************************)
(* ZymCTRL workflow: the generation script (scripts/generate.py) and the   *)
(* workflow task that drives it (wf/task.py).                              *)
(*                                                                         *)
(* Decoded texts are sequences of one-character strings, so that           *)
(* str.split and str.replace work on characters as Python's do.  Labels,   *)
(* directories and file names are strings built with \o.                   *)
(***************************************************************************)
EXTENDS Integers, Sequences, FiniteSets, TLC

VARIABLES task, gen, fs, dirs, sampler, cl

vars == <<task, gen, fs, dirs, sampler, cl>>

(***************************************************************************)
(* Bounds of the model.                                                    *)
(***************************************************************************)
MaxBatches == 2

MaxReturn == 2

MaxPieces == 3

MaxKeyIndex == 11

MaxRequested == 21

(***************************************************************************)
(* Text: Python's str operations on sequences of characters.               *)
(***************************************************************************)
SEP == <<"<", "s", "e", "p", ">">>

PAD == <<"<", "p", "a", "d", ">">>

START == <<"<", "s", "t", "a", "r", "t", ">">>

END == <<"<", "e", "n", "d", ">">>

EOT == <<"<", "|", "e", "n", "d", "o", "f", "t", "e", "x", "t", "|", ">">>

SPACE == <<" ">>

\* generate.py:87
special_tokens == <<START, END, EOT, PAD, SPACE, SEP>>

\* t occurs in s starting at position k
OccursAt(s, t, k) ==
    /\ k >= 1
    /\ k + Len(t) - 1 <= Len(s)
    /\ \A j \in 1..Len(t) : s[k + j - 1] = t[j]

\* str.find: the least position >= from where t occurs in s, 0 when none
RECURSIVE Find(_, _, _)
Find(s, t, from) ==
    IF from + Len(t) - 1 > Len(s) THEN 0
    ELSE IF OccursAt(s, t, from) THEN from
    ELSE Find(s, t, from + 1)

\* str.split(sep): the parts between the non-overlapping occurrences of sep,
\* scanned left to right; always at least one part
RECURSIVE Split(_, _)
Split(s, sep) ==
    LET k == Find(s, sep, 1) IN
    IF k = 0 THEN <<s>>
    ELSE <<SubSeq(s, 1, k - 1)>> \o Split(SubSeq(s, k + Len(sep), Len(s)), sep)

\* str.replace(old, ""): one left-to-right pass deleting the non-overlapping
\* occurrences of old
RECURSIVE Remove(_, _)
Remove(s, old) ==
    LET k == Find(s, old, 1) IN
    IF k = 0 THEN s
    ELSE SubSeq(s, 1, k - 1) \o Remove(SubSeq(s, k + Len(old), Len(s)), old)

\* the loop of generate.py:17-18 over char_list[n..]
RECURSIVE RemoveEach(_, _, _)
RemoveEach(seq, char_list, n) ==
    IF n > Len(char_list) THEN seq
    ELSE RemoveEach(Remove(seq, char_list[n]), char_list, n + 1)

\* generate.py:13-19.  ok = FALSE is the IndexError of columns[1]
remove_characters(sequence, char_list) ==
    LET columns == Split(sequence, SEP) IN
    IF Len(columns) < 2 THEN [ok |-> FALSE, val |-> <<>>]
    ELSE [ok |-> TRUE, val |-> RemoveEach(columns[2], char_list, 1)]

(***************************************************************************)
(* The sequence model and its tokenizer are external.  They are stood in   *)
(* for by a small vocabulary, a fixed set of raw samples the sampler can   *)
(* return, and a score that is a function of the tokens alone (the model   *)
(* is in evaluation mode: scoring the same tokens gives the same loss).    *)
(***************************************************************************)
\* generate.py:39
pad_token_id == 0

\* generate.py:38
eos_token_id == 1

\* tokenizer vocabulary: token id -> text
Vocab(t) ==
    CASE t = 0 -> PAD
      [] t = 1 -> EOT
      [] t = 2 -> SEP
      [] t = 3 -> START
      [] t = 4 -> END
      [] t = 5 -> <<"M">>
      [] t = 6 -> <<"K">>
      [] t = 7 -> <<"V">>
      [] OTHER -> <<"1">>

\* tokenizer.decode (generate.py:52): the tokens' texts, concatenated
RECURSIVE decode(_)
decode(output) ==
    IF output = <<>> THEN <<>>
    ELSE Vocab(Head(output)) \o decode(Tail(output))

\* calculatePerplexity (generate.py:22-27): exp(loss) of the sequence scored
\* against itself; the stand-in loss grows with the number of residue tokens
calculatePerplexity(input_ids) ==
    1 + Cardinality({k \in 1..Len(input_ids) : input_ids[k] \in {5, 6, 7}})

\* rows of the tensor model.generate returns (generate.py:33-42), all of one
\* length: finished rows are padded with 0, the longest row ends with the
\* eos token (or, cut at max_length, with a residue)
sGoodA == <<8, 2, 3, 5, 6, 4, 1, 0>>

sGoodB == <<8, 2, 3, 5, 7, 4, 1, 0>>

sBest == <<8, 2, 3, 6, 4, 1, 0, 0>>

sLongest == <<8, 2, 3, 5, 6, 7, 4, 1>>

sNoSep == <<8, 3, 5, 4, 1, 0, 0, 0>>

RawSamples == {sGoodA, sGoodB, sBest, sLongest, sNoSep}

\* the rows one loaded model can return: any two of the raw samples
Samplers == {S \in SUBSET RawSamples : Cardinality(S) = 2}

(***************************************************************************)
(* main() of generate.py after the sampling call.                          *)
(***************************************************************************)
\* a filter that also keeps rows ending with the eos token
Kept_mut(output) == output[Len(output)] \in {pad_token_id, eos_token_id}

\* generate.py:46, the condition of the comprehension
Kept(output) == output[Len(output)] = pad_token_id

\* generate.py:46
TruncationFilter(outputs) == SelectSeq(outputs, Kept)

\* an insertion that goes before the elements of equal key
InsertByKey_mut(sorted, x) ==
    LET n == Cardinality({j \in 1..Len(sorted) : sorted[j][2] < x[2]}) IN
    SubSeq(sorted, 1, n) \o <<x>> \o SubSeq(sorted, n + 1, Len(sorted))

\* list.sort is stable: x goes after every element whose key is <= its own
InsertByKey(sorted, x) ==
    LET n == Cardinality({j \in 1..Len(sorted) : sorted[j][2] <= x[2]}) IN
    SubSeq(sorted, 1, n) \o <<x>> \o SubSeq(sorted, n + 1, Len(sorted))

\* generate.py:57, ppls.sort(key=lambda i: i[1])
RECURSIVE SortByKey(_)
SortByKey(l) ==
    IF l = <<>> THEN <<>>
    ELSE InsertByKey(SortByKey(SubSeq(l, 1, Len(l) - 1)), l[Len(l)])

\* an empty batch that raises instead of printing
EmptyBatchOutcome_raise == "RuntimeError"

\* generate.py:47-48: an empty batch prints a diagnostic, nothing is raised
EmptyBatchOutcome == "none"

\* generate.py:44-63 given the sampled outputs.  raised is the exception that
\* leaves main(): "IndexError" from remove_characters, else "none"
main(outputs) ==
    LET new_outputs == TruncationFilter(outputs)
        scored == [k \in 1..Len(new_outputs) |->
                     <<decode(new_outputs[k]), calculatePerplexity(new_outputs[k])>>]
        ppls == SortByKey(scored)
        cleaned == [k \in 1..Len(ppls) |-> remove_characters(ppls[k][1], special_tokens)]
    IN  [new_outputs |-> new_outputs,
         scored |-> scored,
         ppls |-> ppls,
         raised |-> IF new_outputs = <<>> THEN EmptyBatchOutcome
                    ELSE IF \E k \in 1..Len(ppls) : ~cleaned[k].ok
                    THEN "IndexError" ELSE "none",
         sequences |-> IF \E k \in 1..Len(ppls) : ~cleaned[k].ok THEN <<>>
                       ELSE [k \in 1..Len(ppls) |-> <<cleaned[k].val, ppls[k][2]>>]]

(***************************************************************************)
(* The command line of generate.py.                                        *)
(***************************************************************************)
\* generate.py:75
DefaultNumBatches == 20

\* generate.py:77
DefaultNumReturn == 20

\* the options argparse knows (generate.py:68-78)
KnownFlags ==
    {"--ec_number", "--output_dir", "--model_path", "--num_batches",
     "--num_return_sequences"}

\* required=True (generate.py:69, 72)
RequiredFlags == {"--ec_number", "--output_dir"}

HasFlag(argv, flag) == \E k \in 1..Len(argv) : argv[k][1] = flag

\* the value of the last occurrence of flag, or its default
RECURSIVE ArgValue(_, _, _)
ArgValue(argv, flag, default) ==
    IF argv = <<>> THEN default
    ELSE IF argv[Len(argv)][1] = flag THEN argv[Len(argv)][2]
    ELSE ArgValue(SubSeq(argv, 1, Len(argv) - 1), flag, default)

NoNamespace ==
    [ec_number |-> "", output_dir |-> "", model_path |-> "",
     num_batches |-> 0, num_return_sequences |-> 0]

\* parser.parse_args() (generate.py:67-79).  argv is a sequence of
\* <<flag, value>>; an unknown flag or a missing required one is a usage
\* error (the script exits with status 2).  None of the flags used here is a
\* prefix of a known one, so abbreviation matching plays no part.
parse_args(argv) ==
    IF \/ \E k \in 1..Len(argv) : argv[k][1] \notin KnownFlags
       \/ \E f \in RequiredFlags : ~HasFlag(argv, f)
    THEN [ok |-> FALSE, ns |-> NoNamespace]
    ELSE [ok |-> TRUE,
          ns |-> [ec_number |-> ArgValue(argv, "--ec_number", ""),
                  output_dir |-> ArgValue(argv, "--output_dir", ""),
                  model_path |-> ArgValue(argv, "--model_path", "AI4PD/ZymCTRL"),
                  num_batches |-> ArgValue(argv, "--num_batches", DefaultNumBatches),
                  num_return_sequences |->
                      ArgValue(argv, "--num_return_sequences", DefaultNumReturn)]]

(***************************************************************************)
(* Artifact names (generate.py:105-106).                                   *)
(***************************************************************************)
Digit(d) ==
    CASE d = 0 -> "0" [] d = 1 -> "1" [] d = 2 -> "2" [] d = 3 -> "3"
      [] d = 4 -> "4" [] d = 5 -> "5" [] d = 6 -> "6" [] d = 7 -> "7"
      [] d = 8 -> "8" [] OTHER -> "9"

\* str(n) / f"{n}" of a non-negative int
RECURSIVE Str(_)
Str(n) == IF n < 10 THEN Digit(n) ELSE Str(n \div 10) \o Digit(n % 10)

\* a name that leaves the label out
ArtifactId_nolabel(key, i, index) == Str(i) \o "_" \o Str(index)

\* a name that leaves the batch index out
ArtifactId_nobatch(key, i, index) == key \o "_" \o Str(0) \o "_" \o Str(index)

\* f"{key}_{i}_{index}" (generate.py:105, 106)
ArtifactId(key, i, index) == key \o "_" \o Str(i) \o "_" \o Str(index)

\* f"{key}_{i}_{index}.fasta" (generate.py:105)
FileName(key, i, index) == ArtifactId(key, i, index) \o ".fasta"

\* f"{args.output_dir}/{key}_{i}_{index}.fasta" (generate.py:105)
ArtifactPath(output_dir, key, i, index) == output_dir \o "/" \o FileName(key, i, index)

\* open(path, "w"); write; close (generate.py:105-107): the file is created
\* or overwritten
WriteFile(files, path, content) ==
    [x \in (DOMAIN files) \cup {path} |-> IF x = path THEN content ELSE files[x]]

(***************************************************************************)
(* One run of generate.py, as process p.                                   *)
(***************************************************************************)
Procs == {1, 2}

GenOff ==
    [pc |-> "off", argv |-> <<>>, args |-> NoNamespace, i |-> 0,
     outputs |-> <<>>, new_outputs |-> <<>>, scored |-> <<>>, ppls |-> <<>>,
     sequences |-> <<>>, index |-> 0, err |-> "none", rc |-> 0,
     sampled |-> 0, surv |-> <<>>, wrote |-> {}]

\* (sampled counts the calls of model.generate that returned, surv lists the
\* length of each result main() returned, wrote records each file written
\* with what was written: these three are history, not program state)

GenLaunched(argv) == [GenOff EXCEPT !.pc = "start", !.argv = argv]

\* an exception that is swallowed: the loop goes on with the next batch
Raise_continue(g, e) == [g EXCEPT !.pc = "loop", !.i = @ + 1, !.err = e]

\* an exception nothing catches (there is no try in generate.py): the
\* traceback is printed and the script exits with status 1
Raise(g, e) == [g EXCEPT !.pc = "exited", !.rc = 1, !.err = e]

\* generate.py:67-90: parse the command line, load tokenizer and model,
\* create the output directory
GenStart(p) ==
    /\ gen[p].pc = "start"
    /\ LET r == parse_args(gen[p].argv) IN
       IF ~r.ok
       THEN /\ gen' = [gen EXCEPT ![p] = [@ EXCEPT !.pc = "exited", !.rc = 2,
                                                   !.err = "usage"]]
            /\ UNCHANGED dirs
       ELSE \E loaded \in BOOLEAN :
              IF loaded
              THEN /\ gen' = [gen EXCEPT ![p] = [@ EXCEPT !.pc = "loop",
                                                          !.args = r.ns, !.i = 0]]
                   /\ dirs' = dirs \cup {r.ns.output_dir}
              ELSE /\ gen' = [gen EXCEPT ![p] = Raise([@ EXCEPT !.args = r.ns],
                                                      "UpstreamFailure")]
                   /\ UNCHANGED dirs
    /\ UNCHANGED <<task, fs, sampler, cl>>

\* where the loop goes after iteration i has written all of its files
AfterBatch(g) == [g EXCEPT !.pc = "loop", !.i = @ + 1]

\* generate.py:92-100: one call of main().  model.generate returns
\* num_return_sequences rows or fails (the value is handed over as parsed
\* from the command line; what the library makes of it is part of "fails");
\* scoring, only reached with a kept row, may fail too
GenBatch(p) ==
    /\ gen[p].pc = "loop"
    /\ gen[p].i < gen[p].args.num_batches
    /\ \/ gen' = [gen EXCEPT ![p] = Raise(@, "UpstreamFailure")]
       \/ \E outs \in [1..gen[p].args.num_return_sequences -> sampler] :
            \E m \in {main(outs)} :
            LET g == [gen[p] EXCEPT !.outputs = outs, !.sampled = @ + 1,
                                    !.new_outputs = m.new_outputs]
            IN  \/ /\ m.new_outputs # <<>>
                   /\ gen' = [gen EXCEPT ![p] = Raise(g, "UpstreamFailure")]
                \/ /\ m.raised # "none"
                   /\ gen' = [gen EXCEPT ![p] =
                                Raise([g EXCEPT !.scored = m.scored, !.ppls = m.ppls],
                                      m.raised)]
                \/ /\ m.raised = "none"
                   /\ LET h == [g EXCEPT !.scored = m.scored, !.ppls = m.ppls,
                                         !.sequences = m.sequences, !.index = 0,
                                         !.surv = Append(@, Len(m.sequences))]
                      IN  gen' = [gen EXCEPT ![p] =
                                    IF m.sequences = <<>> THEN AfterBatch(h)
                                    ELSE [h EXCEPT !.pc = "write"]]
    /\ UNCHANGED <<task, fs, dirs, sampler, cl>>

\* generate.py:101-107: one iteration of the write loop.  The field by of a
\* file (the process that wrote it) is history, not file content
GenWrite(p) ==
    /\ gen[p].pc = "write"
    /\ LET g == gen[p]
           key == g.args.ec_number
           val == g.sequences[g.index + 1]
           path == ArtifactPath(g.args.output_dir, key, g.i, g.index)
           h == [g EXCEPT !.index = @ + 1,
                          !.wrote = @ \cup {[path |-> path,
                                             name |-> FileName(key, g.i, g.index),
                                             label |-> key, batch |-> g.i,
                                             rank |-> g.index,
                                             ppl |-> val[2], seq |-> val[1]]}]
       IN  /\ fs' = WriteFile(fs, path,
                              [id |-> ArtifactId(key, g.i, g.index),
                               ppl |-> val[2], seq |-> val[1], by |-> p])
           /\ gen' = [gen EXCEPT ![p] =
                        IF g.index + 1 = Len(g.sequences) THEN AfterBatch(h) ELSE h]
    /\ UNCHANGED <<task, dirs, sampler, cl>>

\* generate.py:92: range(0, int(args.num_batches)) is exhausted
GenFinish(p) ==
    /\ gen[p].pc = "loop"
    /\ gen[p].i >= gen[p].args.num_batches
    /\ gen' = [gen EXCEPT ![p] = [@ EXCEPT !.pc = "exited", !.rc = 0]]
    /\ UNCHANGED <<task, fs, dirs, sampler, cl>>

(***************************************************************************)
(* zymctrl_task (wf/task.py).                                              *)
(***************************************************************************)
\* task.py:134, the divisor: 20 sequences per batch
BatchSize == 20

Labels == {"1.1.1.1", "1.1.1.1_0", "2.7.1.1"}

Modes == {"finetune", "generate"}

\* task.py:29, with run_name = "run"
local_output_dir == "/root/outputs/run"

\* task.py:63-65
dataset_dir == local_output_dir \o "/dataset"

model_dir == local_output_dir \o "/model"

sequences_dir == local_output_dir \o "/sequences"

TaskIdle ==
    [pc |-> "idle", mode |-> "generate", training_fasta |-> FALSE,
     ec_numbers |-> <<>>, num_sequences |-> 0, model_path |-> "",
     output_path |-> "", ec |-> 1, batch |-> 0, cmds |-> <<>>, err |-> "none"]

TaskFail(t, e) == [t EXCEPT !.pc = "failed", !.err = e]

\* a record of one subprocess.run: the script and its exit status
Ran(t, script, rc) == [t EXCEPT !.cmds = Append(@, [script |-> script, rc |-> rc])]

\* task.py:25-34: rename, create the run directory, run nvidia-smi and then
\* nvcc --version.  Either may exit non-zero: check=True then raises
\* CalledProcessError outside the try block, and nvcc is run only after
\* nvidia-smi succeeded
TaskSetup ==
    /\ task.pc = "begin"
    /\ dirs' = dirs \cup {local_output_dir}
    /\ \E smi \in {0, 1}, nvcc \in {0, 1} :
         task' = IF smi # 0
                 THEN TaskFail(Ran(task, "nvidia-smi", smi), "CalledProcessError")
                 ELSE IF nvcc # 0
                 THEN TaskFail(Ran(Ran(task, "nvidia-smi", 0), "nvcc", nvcc),
                               "CalledProcessError")
                 ELSE [Ran(Ran(task, "nvidia-smi", 0), "nvcc", 0)
                         EXCEPT !.pc = "validate"]
    /\ UNCHANGED <<gen, fs, sampler, cl>>

\* a validation that only refuses an empty list of EC numbers
Validate_atleastone(mode, training_fasta, ec_numbers) ==
    IF mode = "finetune" /\ ~training_fasta THEN "ValueError"
    ELSE IF mode = "finetune" /\ Len(ec_numbers) < 1 THEN "ValueError"
    ELSE "none"

\* task.py:38-56: the exception the validation raises, or "none"
Validate(mode, training_fasta, ec_numbers) ==
    IF mode = "finetune" /\ ~training_fasta THEN "ValueError"
    ELSE IF mode = "finetune" /\ Len(ec_numbers) # 1 THEN "ValueError"
    ELSE "none"

\* task.py:36-56
TaskValidate ==
    /\ task.pc = "validate"
    /\ LET e == Validate(task.mode, task.training_fasta, task.ec_numbers) IN
       task' = IF e # "none" THEN TaskFail(task, e) ELSE [task EXCEPT !.pc = "try"]
    /\ UNCHANGED <<gen, fs, dirs, sampler, cl>>

\* task.py:59-85: create the three directories, run prep.py.  ec_numbers[0]
\* of an empty list is an IndexError, caught and re-raised at 159-163
TaskPrepare ==
    /\ task.pc = "try"
    /\ task.mode = "finetune"
    /\ IF task.ec_numbers = <<>>
       THEN /\ task' = TaskFail(task, "IndexError")
            /\ UNCHANGED dirs
       ELSE /\ dirs' = dirs \cup {dataset_dir, model_dir, sequences_dir}
            /\ \E ok \in BOOLEAN :
                 task' = IF ok THEN [Ran(task, "prep.py", 0) EXCEPT !.pc = "finetune"]
                         ELSE TaskFail(Ran(task, "prep.py", 1), "CalledProcessError")
    /\ UNCHANGED <<gen, fs, sampler, cl>>

\* task.py:87-126: run run_clm.py, then generate with the fine-tuned model
TaskFinetune ==
    /\ task.pc = "finetune"
    /\ \E ok \in BOOLEAN :
         task' = IF ok THEN [Ran(task, "run_clm.py", 0)
                               EXCEPT !.pc = "labels", !.model_path = model_dir,
                                      !.output_path = sequences_dir]
                 ELSE TaskFail(Ran(task, "run_clm.py", 1), "CalledProcessError")
    /\ UNCHANGED <<gen, fs, dirs, sampler, cl>>

\* task.py:128-131
TaskDirect ==
    /\ task.pc = "try"
    /\ task.mode # "finetune"
    /\ task' = [task EXCEPT !.pc = "labels", !.model_path = "AI4PD/ZymCTRL",
                            !.output_path = local_output_dir]
    /\ UNCHANGED <<gen, fs, dirs, sampler, cl>>

\* task.py:134
batches(num_sequences) == (num_sequences + 19) \div BatchSize

\* task.py:136
ec_dir(t) == t.output_path \o "/" \o t.ec_numbers[t.ec]

\* task.py:135-140: the next EC number, its directory, the first batch
TaskNextLabel ==
    /\ task.pc = "labels"
    /\ IF task.ec > Len(task.ec_numbers)
       THEN /\ task' = [task EXCEPT !.pc = "done"]
            /\ UNCHANGED dirs
       ELSE /\ dirs' = dirs \cup {ec_dir(task)}
            /\ task' = IF batches(task.num_sequences) <= 0
                       THEN [task EXCEPT !.ec = @ + 1]
                       ELSE [task EXCEPT !.pc = "call", !.batch = 0]
    /\ UNCHANGED <<gen, fs, sampler, cl>>

\* task.py:142-155, the command line of one generate.py subprocess
GenerateArgv(t) ==
    << <<"--ec_number", t.ec_numbers[t.ec]>>,
       <<"--output_dir", ec_dir(t)>>,
       <<"--batch_id", t.batch>>,
       <<"--model_path", t.model_path>>,
       <<"--num_sequences", 20>> >>

\* task.py:141-157: subprocess.run starts generate.py and waits for it
TaskCallGenerate ==
    /\ task.pc = "call"
    /\ gen[1].pc \in {"off", "exited"}
    /\ gen' = [gen EXCEPT ![1] = GenLaunched(GenerateArgv(task))]
    /\ task' = [task EXCEPT !.pc = "wait"]
    /\ UNCHANGED <<fs, dirs, sampler, cl>>

\* task.py:141-157 and 159-163: the subprocess has ended; check=True raises
\* CalledProcessError on a non-zero status, which is reported and re-raised
TaskGenerateReturn ==
    /\ task.pc = "wait"
    /\ gen[1].pc = "exited"
    /\ LET t == Ran(task, "generate.py", gen[1].rc) IN
       task' = IF gen[1].rc # 0 THEN TaskFail(t, "CalledProcessError")
               ELSE IF t.batch + 1 < batches(t.num_sequences)
               THEN [t EXCEPT !.pc = "call", !.batch = @ + 1]
               ELSE [t EXCEPT !.pc = "labels", !.ec = @ + 1]
    /\ UNCHANGED <<gen, fs, dirs, sampler, cl>>

(***************************************************************************)
(* remove_characters on its own.                                           *)
(***************************************************************************)
CleanIdle == [st |-> "idle", text |-> <<>>, out |-> [ok |-> FALSE, val |-> <<>>]]

Pieces == {SEP, PAD, <<"M">>, <<"K">>, SPACE, <<"<", "p", "a">>, <<"d", ">">>}

RECURSIVE Concat(_)
Concat(ps) == IF ps = <<>> THEN <<>> ELSE Head(ps) \o Concat(Tail(ps))

CleanInputs ==
    {Concat(ps) : ps \in UNION {[1..n -> Pieces] : n \in 0..MaxPieces}}

CleanCall ==
    /\ cl.st = "input"
    /\ cl' = [cl EXCEPT !.st = "returned",
                        !.out = remove_characters(cl.text, special_tokens)]
    /\ UNCHANGED <<task, gen, fs, dirs, sampler>>

(***************************************************************************)
(* Specifications.                                                         *)
(***************************************************************************)
NoFiles == [x \in {} |-> 0]

CliArgv(label, nb, nr) ==
    << <<"--ec_number", label>>, <<"--output_dir", "out">>,
       <<"--num_batches", nb>>, <<"--num_return_sequences", nr>> >>

\* generate.py run from the command line
InitCli ==
    /\ task = TaskIdle
    /\ \E label \in Labels, nb \in 0..MaxBatches, nr \in 1..MaxReturn :
         gen = [p \in Procs |-> IF p = 1 THEN GenLaunched(CliArgv(label, nb, nr))
                                ELSE GenOff]
    /\ sampler \in Samplers

\* the workflow task
InitTask ==
    /\ \E mode \in Modes, fasta \in BOOLEAN, n \in 0..2, ns \in 0..MaxRequested :
         \E ecs \in [1..n -> Labels] :
           task = [TaskIdle EXCEPT !.pc = "begin", !.mode = mode,
                                   !.training_fasta = fasta, !.ec_numbers = ecs,
                                   !.num_sequences = ns]
    /\ gen = [p \in Procs |-> GenOff]
    /\ sampler = RawSamples

Init ==
    /\ InitCli \/ InitTask
    /\ fs = NoFiles
    /\ dirs = {}
    /\ cl = CleanIdle

GenNext ==
    \E p \in Procs : GenStart(p) \/ GenBatch(p) \/ GenWrite(p) \/ GenFinish(p)

TaskNext ==
    \/ TaskSetup
    \/ TaskValidate
    \/ TaskPrepare
    \/ TaskFinetune
    \/ TaskDirect
    \/ TaskNextLabel
    \/ TaskCallGenerate
    \/ TaskGenerateReturn

Next == GenNext \/ TaskNext

Spec == Init /\ [][Next]_vars

\* two generate.py processes for two different labels writing into one
\* directory at the same time
InitConc ==
    /\ task = TaskIdle
    /\ \E l1 \in Labels, nb \in 1..MaxBatches :
         \E l2 \in Labels \ {l1} :
           gen = [p \in Procs |->
                    GenLaunched(CliArgv(IF p = 1 THEN l1 ELSE l2, nb, MaxReturn))]
    /\ sampler = {sGoodA}
    /\ fs = NoFiles
    /\ dirs = {}
    /\ cl = CleanIdle

SpecConc == InitConc /\ [][GenNext]_vars

InitClean ==
    /\ task = TaskIdle
    /\ gen = [p \in Procs |-> GenOff]
    /\ sampler = RawSamples
    /\ fs = NoFiles
    /\ dirs = {}
    /\ \E text \in CleanInputs : cl = [CleanIdle EXCEPT !.st = "input", !.text = text]

SpecClean == InitClean /\ [][CleanCall]_vars

(***************************************************************************)
(* Properties.                                                             *)
(***************************************************************************)
Last(output) == output[Len(output)]

\* the positions of the rows of outputs that end with the pad token
PadEnded(outputs) == {k \in 1..Len(outputs) : Last(outputs[k]) = 0}

\* C1: after every call of main() the list handed to scoring holds exactly
\* the sampled rows whose final token is 0, in their original order: its j-th
\* element is the row at the j-th smallest pad-ended position, and it has as
\* many elements as there are such positions.
C1_TruncationFilter ==
    \A p \in Procs :
      LET o == gen[p].outputs
          n == gen[p].new_outputs
          idx == PadEnded(o)
      IN  /\ Len(n) = Cardinality(idx)
          /\ \A j \in 1..Len(n) :
               \E k \in idx : /\ Cardinality({m \in idx : m <= k}) = j
                              /\ n[j] = o[k]

\* a batch with a dropped row before a kept one
C1_Witness ==
    \E p \in Procs :
      /\ gen[p].sampled >= 1
      /\ Len(gen[p].outputs) = 2
      /\ Last(gen[p].outputs[1]) # 0
      /\ Last(gen[p].outputs[2]) = 0
      /\ gen[p].new_outputs = <<gen[p].outputs[2]>>

\* the elements of l whose perplexity is v, in the order of l
WithKey(l, v) == LET T(x) == x[2] = v IN SelectSeq(l, T)

\* C2: the sorted list of (text, perplexity) pairs has the length of the
\* unsorted one, is non-decreasing in perplexity, and for every perplexity
\* value holds the pairs of that value in the order they had before sorting
\* (so it is a permutation, and ties keep their batch order).
C2_StableRanking ==
    \A p \in Procs :
      LET a == gen[p].scored
          b == gen[p].ppls
      IN  /\ Len(b) = Len(a)
          /\ \A j \in 1..Len(b) : \A k \in j..Len(b) : b[j][2] <= b[k][2]
          /\ \A v \in {a[k][2] : k \in 1..Len(a)} \cup {b[k][2] : k \in 1..Len(b)} :
               WithKey(b, v) = WithKey(a, v)

\* two candidates of equal perplexity and different text were ranked
C2_Witness ==
    \E p \in Procs :
      /\ Len(gen[p].ppls) = 2
      /\ gen[p].ppls[1][2] = gen[p].ppls[2][2]
      /\ gen[p].ppls[1][1] # gen[p].ppls[2][1]
      /\ gen[p].ppls = gen[p].scored

\* C3 (as claimed): for a text with a <sep>, remove_characters returns all of
\* the text after the first <sep> with the structural tokens removed one
\* after the other, later <sep> markers included.
C3_AllAfterFirstSep ==
    (cl.st = "returned" /\ Find(cl.text, SEP, 1) # 0) =>
      /\ cl.out.ok
      /\ cl.out.val =
           RemoveEach(SubSeq(cl.text, Find(cl.text, SEP, 1) + Len(SEP), Len(cl.text)),
                      special_tokens, 1)

\* the kept rows of the last sampled batch that decode to a text with a <sep>
WellFormed(g) ==
    {k \in 1..Len(g.new_outputs) : Find(decode(g.new_outputs[k]), SEP, 1) # 0}

\* C4 (as claimed): when a kept row of a batch decodes to a text without
\* <sep>, the run does not abort with the cleaner's error, main() returns,
\* and the batch's result holds every other candidate of the batch.
C4_MalformedDropped ==
    \A p \in Procs :
      LET g == gen[p] IN
      (g.sampled >= 1 /\ Cardinality(WellFormed(g)) < Len(g.new_outputs)) =>
        /\ g.err # "IndexError"
        /\ Len(g.surv) = g.sampled =>
             /\ g.surv[g.sampled] = Cardinality(WellFormed(g))
             /\ g.i >= g.sampled - 1

\* the number of files of batch b the run has written so far
Written(g, b) == IF g.pc = "write" /\ g.i = b THEN g.index ELSE g.surv[b + 1]

\* the path the claim gives the artifact (label, b, r)
KeyPath(g, b, r) ==
    g.args.output_dir \o "/" \o g.args.ec_number \o "_" \o Str(b) \o "_" \o Str(r)
      \o ".fasta"

\* C5: in a run of B batches of N samples the files on disk are exactly
\* label_b_r.fasta for b among the batches main() returned for (all below B)
\* and r in 0..written(b)-1, where written(b) is the surviving count of b once
\* b is written out; there are at most B*N of them, each holds its own key,
\* and within a batch the perplexities do not decrease with r.
C5_ArtifactIndexing ==
    \A p \in Procs :
      LET g == gen[p]
          B == g.args.num_batches
          N == g.args.num_return_sequences
          mine == {x \in DOMAIN fs : fs[x].by = p}
      IN  /\ Len(g.surv) <= B
          /\ \A b \in 0..(Len(g.surv) - 1) : g.surv[b + 1] <= N
          /\ mine = {KeyPath(g, w.batch, w.rank) : w \in g.wrote}
          /\ \A w \in g.wrote : w.batch \in 0..(Len(g.surv) - 1)
          /\ \A b \in 0..(Len(g.surv) - 1) :
               {w.rank : w \in {v \in g.wrote : v.batch = b}} = 0..(Written(g, b) - 1)
          /\ Cardinality(mine) = Cardinality(g.wrote)
          /\ Cardinality(mine) <= B * N
          /\ \A w \in g.wrote :
               /\ w.batch \in 0..(B - 1)
               /\ fs[KeyPath(g, w.batch, w.rank)].id =
                    g.args.ec_number \o "_" \o Str(w.batch) \o "_" \o Str(w.rank)
               /\ \A v \in g.wrote :
                    (v.batch = w.batch /\ v.rank < w.rank) =>
                      fs[KeyPath(g, v.batch, v.rank)].ppl
                        <= fs[KeyPath(g, w.batch, w.rank)].ppl

\* a finished run of two batches with different surviving counts: batch 0
\* holds rank 0 only, batch 1 is ranked from 0 again
C5_Witness ==
    \E p \in Procs :
      /\ gen[p].pc = "exited"
      /\ gen[p].rc = 0
      /\ gen[p].surv = <<1, 2>>
      /\ {<<w.batch, w.rank>> : w \in gen[p].wrote} = {<<0, 0>>, <<1, 0>>, <<1, 1>>}

\* C6 (as claimed): the generate.py subprocess the task starts for its batch
\* counter b takes that counter as its batch index: it does not refuse the
\* command line, and every artifact it writes is keyed with batch index b.
C6_TaskBatchIndexUsed ==
    (task.pc = "wait" /\ gen[1].pc = "exited") =>
      /\ gen[1].err # "usage"
      /\ \A w \in gen[1].wrote : w.batch = task.batch

\* every row of the last sampled batch ends with a token other than 0
AllTruncated(g) ==
    /\ g.sampled >= 1
    /\ \A k \in 1..Len(g.outputs) : Last(g.outputs[k]) # 0

\* C7: when every row of a sampled batch fails the truncation filter, main()
\* returns (nothing is raised) with an empty result, no artifact carries that
\* batch index, and the loop stands at the next batch index.
C7_EmptyBatch ==
    \A p \in Procs :
      LET g == gen[p] IN
      AllTruncated(g) =>
        /\ Len(g.surv) = g.sampled
        /\ g.surv[g.sampled] = 0
        /\ g.sequences = <<>>
        /\ g.err \notin {"IndexError", "RuntimeError"}
        /\ \A w \in g.wrote : w.batch # g.sampled - 1
        /\ \A r \in 0..MaxReturn : KeyPath(g, g.sampled - 1, r) \notin DOMAIN fs
        /\ g.i = g.sampled

\* batch 0 of a two-batch run came back with both rows truncated and the loop
\* is about to run batch 1
C7_Witness ==
    \E p \in Procs :
      /\ AllTruncated(gen[p])
      /\ Len(gen[p].outputs) = 2
      /\ gen[p].pc = "loop"
      /\ gen[p].i = 1
      /\ gen[p].args.num_batches = 2

Scripts == {task.cmds[k].script : k \in 1..Len(task.cmds)}

\* C8: a failure aborts the run with the error propagated and leaves what
\* was written.  generate.py: an error ends the script with a non-zero
\* status at the batch it occurred in, and every file the run wrote is on
\* disk with the content it was written with.  zymctrl_task: only the last
\* subprocess run can have failed, a failed one fails the task with
\* CalledProcessError, nothing is running afterwards, and the directories
\* created stay.
C8_AbortKeepsArtifacts ==
    /\ \A p \in Procs :
         LET g == gen[p] IN
         /\ g.err # "none" => (g.pc = "exited" /\ g.rc # 0)
         /\ g.err # "none" => g.sampled \in {g.i, g.i + 1}
         /\ \A w \in g.wrote :
              /\ w.path \in DOMAIN fs
              /\ fs[w.path].ppl = w.ppl
              /\ fs[w.path].seq = w.seq
              /\ fs[w.path].by = p
    /\ \A k \in 1..(Len(task.cmds) - 1) : task.cmds[k].rc = 0
    /\ (Len(task.cmds) >= 1 /\ task.cmds[Len(task.cmds)].rc # 0) =>
         (task.pc = "failed" /\ task.err = "CalledProcessError")
    /\ task.pc = "failed" =>
         /\ task.err # "none"
         /\ gen[1].pc \in {"off", "exited"}
         /\ local_output_dir \in dirs
    /\ "prep.py" \in Scripts => {dataset_dir, model_dir, sequences_dir} \subseteq dirs

\* the model failed in batch 1 after batch 0 had written its artifacts
C8_Witness ==
    \E p \in Procs :
      /\ gen[p].pc = "exited"
      /\ gen[p].err = "UpstreamFailure"
      /\ gen[p].i = 1
      /\ \E w \in gen[p].wrote : w.batch = 0 /\ w.path \in DOMAIN fs

KeySpace == Labels \X (0..MaxKeyIndex) \X (0..MaxKeyIndex)

\* the artifact name of every identity key of the key space
KeyNames == [k \in KeySpace |-> FileName(k[1], k[2], k[3])]

\* C9: two generate.py processes for different labels, writing into the same
\* directory in any interleaving, never write the same artifact name: every
\* file either wrote is on disk as its writer wrote it; and no other identity
\* key (label, batch, rank) of the key space maps to the name of a written
\* artifact.
C9_CollisionFree ==
    /\ \A v \in gen[1].wrote : \A w \in gen[2].wrote :
         v.name # w.name /\ v.path # w.path
    /\ \A p \in Procs : \A w \in gen[p].wrote :
         /\ w.path \in DOMAIN fs
         /\ fs[w.path].by = p
         /\ fs[w.path].ppl = w.ppl /\ fs[w.path].seq = w.seq
         /\ \A k \in KeySpace :
              KeyNames[k] = w.name => k = <<w.label, w.batch, w.rank>>

\* both processes are in the middle of their write loops, each with a file
\* on disk, one label a prefix of the other
C9_Witness ==
    /\ gen[1].pc = "write" /\ gen[2].pc = "write"
    /\ gen[1].wrote # {} /\ gen[2].wrote # {}
    /\ gen[1].args.ec_number = "1.1.1.1"
    /\ gen[2].args.ec_number = "1.1.1.1_0"

\* finetune mode without a training FASTA or without exactly one EC number
BadFinetune ==
    /\ task.mode = "finetune"
    /\ ~task.training_fasta \/ Len(task.ec_numbers) # 1

RanOk(script) ==
    \E k \in 1..Len(task.cmds) : task.cmds[k].script = script /\ task.cmds[k].rc = 0

\* C10: with bad fine-tune inputs the task gets no further than the
\* validation, where it raises ValueError: no prep.py, run_clm.py or
\* generate.py is run and none of the dataset, model and sequences
\* directories exists.  prep.py and run_clm.py are run only in finetune mode
\* with a training FASTA and exactly one EC number, run_clm.py only after
\* prep.py succeeded, and in finetune mode generate.py is started only after
\* both succeeded.
C10_FinetuneValidation ==
    /\ BadFinetune =>
         /\ task.pc \in {"begin", "validate", "failed"}
         /\ task.pc = "failed" =>
              (task.err = "ValueError" \/ task.cmds[Len(task.cmds)].rc # 0)
         /\ Scripts \cap {"prep.py", "run_clm.py", "generate.py"} = {}
         /\ dirs \cap {dataset_dir, model_dir, sequences_dir} = {}
         /\ gen[1].pc = "off"
    /\ Scripts \cap {"prep.py", "run_clm.py"} # {} =>
         /\ task.mode = "finetune"
         /\ task.training_fasta
         /\ Len(task.ec_numbers) = 1
    /\ dirs \cap {dataset_dir, model_dir, sequences_dir} # {} =>
         (task.mode = "finetune" /\ task.training_fasta /\ Len(task.ec_numbers) = 1)
    /\ "run_clm.py" \in Scripts => RanOk("prep.py")
    /\ (task.mode = "finetune" /\ (task.pc \in {"call", "wait"} \/ "generate.py" \in Scripts)) =>
         (RanOk("prep.py") /\ RanOk("run_clm.py"))

\* the validation refused a fine-tune run with a training FASTA and two EC
\* numbers
C10_Witness ==
    /\ task.mode = "finetune"
    /\ task.training_fasta
    /\ Len(task.ec_numbers) = 2
    /\ task.pc = "failed"
    /\ task.err = "ValueError"
    /\ Scripts = {"nvidia-smi", "nvcc"}

====
